---------------------------- MODULE Spec2Model ----------------------------
(***************************************************************************)
(* Minesweeper knowledge engine of week1/projects1/minesweeper:            *)
(* the Minesweeper board (mine layout, nearby_mines), the Sentence type    *)
(* and the MinesweeperAI object (moves_made, mines, safes, knowledge) with *)
(* add_knowledge, mark_mine, mark_safe, make_safe_move, make_random_move.  *)
(***************************************************************************)
EXTENDS Integers, Sequences, FiniteSets, TLC

\* Grid of the engine under verification (MinesweeperAI(height, width)).
Height == 3
Width == 3

\* Number of mutating calls (add_knowledge, mark_mine, mark_safe) explored.
MaxCalls == 2

\* Largest grid side on which get_neighbors is evaluated.
MaxSide == 4

\* Number of add_knowledge calls explored on the board without mines.
MaxClearCalls == 4

\* Number of calls explored on the sample boards of the longer games.
MaxDeepCalls == 3

\* Longest knowledge base of which every reordering is tried.
MaxPermLen == 4

VARIABLES
    board,            \* Minesweeper.mines: the hidden mine layout
    moves_made,       \* MinesweeperAI.moves_made
    mines,            \* MinesweeperAI.mines
    safes,            \* MinesweeperAI.safes
    knowledge,        \* MinesweeperAI.knowledge: list of sentences
    raised,           \* the last add_knowledge call ended in "raise Exception"
    last,             \* the last mutating call: add_knowledge / mark_mine / mark_safe
    arg_cell,         \* its cell argument
    arg_count,        \* the count argument of the last add_knowledge call
    pc,               \* position of the caller: idle / random / returned
    op,               \* the move query the caller is in or has the result of
    ret,              \* value returned by the last move query (<<>> is None)
    moves_available,  \* local of make_random_move
    calls             \* number of mutating calls made so far

vars == <<board, moves_made, mines, safes, knowledge, raised, last, arg_cell,
          arg_count, pc, op, ret, moves_available, calls>>

aivars == <<moves_made, mines, safes, knowledge>>

----------------------------------------------------------------------------
\* Values

\* Python's None, for a returned cell or a returned set.
None == <<>>

Some(x) == <<x>>

\* Truth value of "if x:" for x a set or None.
Truthy(o) == o # None /\ o[1] # {}

Cells == (0 .. Height - 1) \X (0 .. Width - 1)

\* Sentence(cells, count)
Sentence(cells, count) == [cells |-> cells, count |-> count]

\* All the orders in which a set may be iterated.
RECURSIVE Orders(_)
Orders(S) ==
    IF S = {} THEN {<<>>}
    ELSE UNION {{<<x>> \o t : t \in Orders(S \ {x})} : x \in S}

----------------------------------------------------------------------------
\* Minesweeper (the board)

\* Minesweeper.nearby_mines
nearby_mines(cell) ==
    Cardinality({c \in ((cell[1] - 1) .. (cell[1] + 1)) \X ((cell[2] - 1) .. (cell[2] + 1)) :
                    /\ c # cell
                    /\ 0 <= c[1] /\ c[1] < Height /\ 0 <= c[2] /\ c[2] < Width
                    /\ c \in board})

----------------------------------------------------------------------------
\* Sentence

\* Sentence.known_mines
known_mines(s) == IF s.count = Cardinality(s.cells) THEN Some(s.cells) ELSE None

\* Sentence.known_safes
known_safes(s) == IF s.count = 0 THEN Some(s.cells) ELSE None

\* Mutant of Sentence.mark_mine: the cell is removed, the count is kept.
Sentence_mark_mine_keeps_count(s, cell) ==
    IF cell \in s.cells
    THEN [cells |-> s.cells \ {cell}, count |-> s.count]
    ELSE s

\* Sentence.mark_mine
Sentence_mark_mine(s, cell) ==
    IF cell \in s.cells
    THEN [cells |-> s.cells \ {cell}, count |-> s.count - 1]
    ELSE s

\* Mutant of Sentence.mark_safe: the count is decremented as for a mine.
Sentence_mark_safe_decrements(s, cell) ==
    IF cell \in s.cells
    THEN [cells |-> s.cells \ {cell}, count |-> s.count - 1]
    ELSE s

\* Sentence.mark_safe
Sentence_mark_safe(s, cell) ==
    IF cell \in s.cells
    THEN [cells |-> s.cells \ {cell}, count |-> s.count]
    ELSE s

----------------------------------------------------------------------------
\* MinesweeperAI

\* The object's fields as one value.
AI == [moves_made |-> moves_made, mines |-> mines, safes |-> safes,
       knowledge |-> knowledge]

\* MinesweeperAI.__init__
NewAI == [moves_made |-> {}, mines |-> {}, safes |-> {}, knowledge |-> <<>>]

\* Mutant of get_neighbors: "(i, j) == cell" is not skipped.
get_neighbors_with_cell(height, width, cell) ==
    {c \in ((cell[1] - 1) .. (cell[1] + 1)) \X ((cell[2] - 1) .. (cell[2] + 1)) :
        0 <= c[1] /\ c[1] < height /\ 0 <= c[2] /\ c[2] < width}

\* MinesweeperAI.get_neighbors for an engine with self.height = height and
\* self.width = width: the two range loops, the skip of the cell itself and
\* the bounds test.
get_neighbors_on(height, width, cell) ==
    {c \in ((cell[1] - 1) .. (cell[1] + 1)) \X ((cell[2] - 1) .. (cell[2] + 1)) :
        /\ c # cell
        /\ 0 <= c[1] /\ c[1] < height /\ 0 <= c[2] /\ c[2] < width}

\* MinesweeperAI.get_neighbors
get_neighbors(cell) == get_neighbors_on(Height, Width, cell)

\* MinesweeperAI.mark_mine
mark_mine(ai, cell) ==
    [ai EXCEPT !.mines = @ \cup {cell},
               !.knowledge = [i \in 1 .. Len(@) |-> Sentence_mark_mine(@[i], cell)]]

\* Mutant of MinesweeperAI.mark_safe: the sentences are not updated.
mark_safe_set_only(ai, cell) == [ai EXCEPT !.safes = @ \cup {cell}]

\* MinesweeperAI.mark_safe
mark_safe(ai, cell) ==
    [ai EXCEPT !.safes = @ \cup {cell},
               !.knowledge = [i \in 1 .. Len(@) |-> Sentence_mark_safe(@[i], cell)]]

\* "for safe_cell in self.safes: new_sentence.mark_safe(safe_cell)"
RECURSIVE prune_safes(_, _)
prune_safes(s, S) ==
    IF S = {} THEN s
    ELSE LET c == CHOOSE c \in S : TRUE
         IN prune_safes(Sentence_mark_safe(s, c), S \ {c})

\* "for mine in self.mines: new_sentence.mark_mine(mine)"
RECURSIVE prune_mines(_, _)
prune_mines(s, S) ==
    IF S = {} THEN s
    ELSE LET c == CHOOSE c \in S : TRUE
         IN prune_mines(Sentence_mark_mine(s, c), S \ {c})

\* Mutant of steps 1 and 2: the cell is not added to self.safes.
record_move_not_safe(ai, cell) ==
    [ai EXCEPT !.moves_made = @ \cup {cell},
               !.knowledge = [i \in 1 .. Len(@) |-> Sentence_mark_safe(@[i], cell)]]

\* Mutant of steps 1 and 2: the existing sentences are not updated.
record_move_keeps_sentences(ai, cell) ==
    [ai EXCEPT !.moves_made = @ \cup {cell},
               !.safes = @ \cup {cell}]

\* add_knowledge, steps 1 and 2: record the move, mark the cell safe in the
\* set and in every sentence.
record_move(ai, cell) ==
    [ai EXCEPT !.moves_made = @ \cup {cell},
               !.safes = @ \cup {cell},
               !.knowledge = [i \in 1 .. Len(@) |-> Sentence_mark_safe(@[i], cell)]]

\* Mutant of step 3: the known mines are left in the new sentence.
new_sentence_keeps_mines(ai, cell, count) ==
    prune_safes(Sentence(get_neighbors(cell), count), ai.safes)

\* Mutant of step 3: the known safe cells are left in the new sentence.
new_sentence_keeps_safes(ai, cell, count) ==
    prune_mines(Sentence(get_neighbors(cell), count), ai.mines)

\* add_knowledge, steps 3.1 to 3.4: the observation's sentence, pruned.
new_sentence(ai, cell, count) ==
    prune_mines(prune_safes(Sentence(get_neighbors(cell), count), ai.safes), ai.mines)

\* add_knowledge, step 3.5
add_sentence(ai, cell, count) ==
    [ai EXCEPT !.knowledge = Append(@, new_sentence(ai, cell, count))]

\* list.remove(x): drops the first element equal to x.
RECURSIVE list_remove(_, _)
list_remove(seq, x) ==
    IF seq = <<>> THEN <<>>
    ELSE IF Head(seq) = x THEN Tail(seq)
    ELSE <<Head(seq)>> \o list_remove(Tail(seq), x)

\* "for sentence in sentences_to_remove: self.knowledge.remove(sentence)"
RECURSIVE remove_sentences(_, _)
remove_sentences(seq, S) ==
    IF S = {} THEN seq
    ELSE LET x == CHOOSE x \in S : TRUE
         IN remove_sentences(list_remove(seq, x), S \ {x})

\* Mutant of step 4.3: the cells of an all-mines sentence are collected as
\* safes too.
inferred_safes_and_mines(kb) ==
    UNION {kb[i].cells : i \in {i \in 1 .. Len(kb) :
                                  Truthy(known_safes(kb[i])) \/ Truthy(known_mines(kb[i]))}}

\* Mutant of step 4.3: only the sentence just appended is scanned for safes.
inferred_safes_new_sentence(kb) ==
    IF Len(kb) > 0 /\ Truthy(known_safes(kb[Len(kb)])) THEN kb[Len(kb)].cells ELSE {}

\* add_knowledge, step 4.3: what the scan of the knowledge base collects.
inferred_safes(kb) ==
    UNION {kb[i].cells : i \in {i \in 1 .. Len(kb) : Truthy(known_safes(kb[i]))}}

inferred_mines(kb) ==
    UNION {kb[i].cells : i \in {i \in 1 .. Len(kb) : Truthy(known_mines(kb[i]))}}

\* Mutant of step 4.3: only the first resolved sentence of the scan is
\* put in sentences_to_remove.
sentences_to_remove_first(kb) ==
    LET I == {i \in 1 .. Len(kb) :
                Truthy(known_safes(kb[i])) \/ Truthy(known_mines(kb[i]))}
    IN {kb[i] : i \in {i \in I : \A j \in I : i <= j}}

\* A set of Sentence objects holds one of any two that are __eq__.
sentences_to_remove(kb) ==
    {kb[i] : i \in {i \in 1 .. Len(kb) :
                      Truthy(known_safes(kb[i])) \/ Truthy(known_mines(kb[i]))}}

\* Mutant of step 4.4: the sets are assigned the inferred cells, not
\* extended by them.
resolve_overwrites(ai) ==
    [ai EXCEPT !.safes = inferred_safes(ai.knowledge),
               !.mines = inferred_mines(ai.knowledge),
               !.knowledge = remove_sentences(@, sentences_to_remove(ai.knowledge))]

\* add_knowledge, step 4: resolve the sentences with count 0 or count = len.
resolve(ai) ==
    [ai EXCEPT !.safes = @ \cup inferred_safes(ai.knowledge),
               !.mines = @ \cup inferred_mines(ai.knowledge),
               !.knowledge = remove_sentences(@, sentences_to_remove(ai.knowledge))]

\* Mutant of step 5.2: the "elif ... issuperset" branch is left out.
subsets_forward_only(kb) ==
    {p \in (1 .. Len(kb)) \X (1 .. Len(kb)) :
        p[1] < p[2] /\ kb[p[1]].cells \subseteq kb[p[2]].cells}

\* add_knowledge, step 5.2: the index pairs (i, j) with KB[i].cells a subset
\* of KB[j].cells.
subsets(kb) ==
    {p \in (1 .. Len(kb)) \X (1 .. Len(kb)) :
        \/ p[1] < p[2] /\ kb[p[1]].cells \subseteq kb[p[2]].cells
        \/ /\ p[2] < p[1]
           /\ ~(kb[p[2]].cells \subseteq kb[p[1]].cells)
           /\ kb[p[1]].cells \subseteq kb[p[2]].cells}

\* Mutant of step 5.3: "if new_count <= 0: raise Exception"
derivation_raises_at_zero(kb) ==
    \E p \in subsets(kb) : kb[p[2]].count - kb[p[1]].count <= 0

\* add_knowledge, step 5.3: "if new_count < 0: raise Exception"
derivation_raises(kb) ==
    \E p \in subsets(kb) : kb[p[2]].count - kb[p[1]].count < 0

\* add_knowledge, step 5.3: the set sentences_to_add.
sentences_to_add(kb) ==
    {Sentence(kb[p[2]].cells \ kb[p[1]].cells, kb[p[2]].count - kb[p[1]].count) :
        p \in subsets(kb)}

\* Mutant of step 5: a negative count is not raised, the sentence is kept.
derive_keeps_negative(ai) ==
    {[ai |-> [ai EXCEPT !.knowledge = @ \o t], raised |-> FALSE] :
        t \in Orders(sentences_to_add(ai.knowledge))}

\* add_knowledge, step 5: every result the iteration order of
\* sentences_to_add allows, or the exception.
derive(ai) ==
    IF derivation_raises(ai.knowledge)
    THEN {[ai |-> ai, raised |-> TRUE]}
    ELSE {[ai |-> [ai EXCEPT !.knowledge = @ \o t], raised |-> FALSE] :
             t \in Orders(sentences_to_add(ai.knowledge))}

\* MinesweeperAI.add_knowledge: the possible outcomes of one call.
add_knowledge(ai, cell, count) ==
    derive(resolve(add_sentence(record_move(ai, cell), cell, count)))

\* Mutant of the test in make_random_move: "or" for "and".
is_free_either(ai, cell) == cell \notin ai.moves_made \/ cell \notin ai.mines

\* make_random_move: "random_move not in self.moves_made and random_move not
\* in self.mines"
is_free(ai, cell) == cell \notin ai.moves_made /\ cell \notin ai.mines

\* Mutant of make_safe_move: moves already made are not skipped.
make_safe_move_any_safe(ai) ==
    IF ai.safes = {} THEN {None} ELSE ai.safes

\* MinesweeperAI.make_safe_move: the values the call may return.
make_safe_move(ai) ==
    IF ai.safes \ ai.moves_made = {} THEN {None}
    ELSE ai.safes \ ai.moves_made

----------------------------------------------------------------------------
\* Specification

TypeOK ==
    /\ board \subseteq Cells
    /\ moves_available \in 0 .. Height * Width
    /\ pc \in {"idle", "random", "returned"}
    /\ op \in {"none", "make_safe_move", "make_random_move"}
    /\ last \in {"none", "add_knowledge", "mark_mine", "mark_safe"}
    /\ raised \in BOOLEAN
    /\ calls \in (0 .. MaxCalls) \cup (0 .. MaxClearCalls) \cup (0 .. MaxDeepCalls)

InitAI ==
    /\ moves_made = NewAI.moves_made
    /\ mines = NewAI.mines
    /\ safes = NewAI.safes
    /\ knowledge = NewAI.knowledge
    /\ raised = FALSE
    /\ last = "none"
    /\ arg_cell = None
    /\ arg_count = 0
    /\ pc = "idle"
    /\ op = "none"
    /\ ret = None
    /\ moves_available = 0
    /\ calls = 0

\* Minesweeper.__init__ places the mines at random; MinesweeperAI.__init__.
Init ==
    /\ board \in SUBSET Cells
    /\ InitAI

\* One call add_knowledge(cell, count), from the caller's idle position,
\* while fewer than limit mutating calls have been made.
AddKnowledgeWithin(limit, cell, count) ==
    /\ pc = "idle"
    /\ calls < limit
    /\ \E r \in add_knowledge(AI, cell, count) :
          /\ moves_made' = r.ai.moves_made
          /\ mines' = r.ai.mines
          /\ safes' = r.ai.safes
          /\ knowledge' = r.ai.knowledge
          /\ raised' = r.raised
    /\ last' = "add_knowledge"
    /\ arg_cell' = cell
    /\ arg_count' = count
    /\ calls' = calls + 1
    /\ UNCHANGED <<board, pc, op, ret, moves_available>>

\* One call add_knowledge(cell, count) within the first MaxCalls calls.
AddKnowledgeCall(cell, count) == AddKnowledgeWithin(MaxCalls, cell, count)

\* The game reveals a cell that holds no mine and reports its count to the
\* engine: add_knowledge(cell, game.nearby_mines(cell)).
Observe ==
    \E cell \in Cells \ board : AddKnowledgeCall(cell, nearby_mines(cell))

\* Mutant of SafeMove: the returned cell is recorded as a move made.
SafeMove_records_move ==
    /\ pc = "idle"
    /\ \E r \in make_safe_move(AI) :
          /\ ret' = r
          /\ moves_made' = IF r = None THEN moves_made ELSE moves_made \cup {r}
    /\ pc' = "returned"
    /\ op' = "make_safe_move"
    /\ UNCHANGED <<board, mines, safes, knowledge, raised, last, arg_cell,
                   arg_count, moves_available, calls>>

\* make_safe_move()
SafeMove ==
    /\ pc = "idle"
    /\ \E r \in make_safe_move(AI) : ret' = r
    /\ pc' = "returned"
    /\ op' = "make_safe_move"
    /\ UNCHANGED <<board, aivars, raised, last, arg_cell, arg_count, moves_available, calls>>

\* make_random_move(): entry, "moves_available = board_height * board_width".
RandomMoveEnter ==
    /\ pc = "idle"
    /\ pc' = "random"
    /\ op' = "make_random_move"
    /\ moves_available' = Height * Width
    /\ ret' = None
    /\ UNCHANGED <<board, aivars, raised, last, arg_cell, arg_count, calls>>

\* Mutant of RandomMoveDraw: the loop gives up one rejected draw later.
RandomMoveDraw_one_more ==
    /\ pc = "random"
    /\ \E i \in 0 .. Height - 1, j \in 0 .. Width - 1 :
          IF is_free(AI, <<i, j>>)
          THEN /\ ret' = <<i, j>>
               /\ pc' = "returned"
               /\ moves_available' = 0
          ELSE /\ moves_available' = moves_available - 1
               /\ ret' = None
               /\ pc' = IF moves_available' < 0 THEN "returned" ELSE "random"
    /\ UNCHANGED <<board, aivars, raised, last, arg_cell, arg_count, op, calls>>

\* make_random_move(): one iteration of "while True" with the drawn (i, j).
RandomMoveDraw ==
    /\ pc = "random"
    /\ \E i \in 0 .. Height - 1, j \in 0 .. Width - 1 :
          IF is_free(AI, <<i, j>>)
          THEN /\ ret' = <<i, j>>
               /\ pc' = "returned"
               /\ moves_available' = 0
          ELSE /\ moves_available' = moves_available - 1
               /\ ret' = None
               /\ pc' = IF moves_available' = 0 THEN "returned" ELSE "random"
    /\ UNCHANGED <<board, aivars, raised, last, arg_cell, arg_count, op, calls>>

\* The caller takes the returned move and is between calls again.
Resume ==
    /\ pc = "returned"
    /\ pc' = "idle"
    /\ op' = "none"
    /\ ret' = None
    /\ moves_available' = 0
    /\ UNCHANGED <<board, aivars, raised, last, arg_cell, arg_count, calls>>

Next ==
    \/ Observe
    \/ SafeMove
    \/ RandomMoveEnter
    \/ RandomMoveDraw
    \/ Resume

Spec == Init /\ [][Next]_vars

----------------------------------------------------------------------------
\* The engine driven by a caller that passes any arguments: cells inside
\* and outside the grid, counts in and out of range, and the public
\* mark_mine / mark_safe.

OutCells == {<<0 - 1, 0>>}

ArgCells == Cells \cup OutCells

\* Counts below the range, zero, partial, a corner's full count, and above
\* the range of eight neighbours.
ArgCounts == {0 - 1, 0, 1, 3, 9}

InitAny ==
    /\ board = {}
    /\ InitAI

AddKnowledgeAny ==
    \E cell \in ArgCells, count \in ArgCounts : AddKnowledgeCall(cell, count)

\* One call ai.mark_mine(cell) while fewer than limit calls have been made.
MarkMineWithin(limit, cell) ==
    /\ pc = "idle"
    /\ calls < limit
    /\ LET r == mark_mine(AI, cell)
       IN /\ mines' = r.mines
          /\ knowledge' = r.knowledge
          /\ arg_cell' = cell
    /\ last' = "mark_mine"
    /\ calls' = calls + 1
    /\ UNCHANGED <<board, moves_made, safes, raised, arg_count, pc, op, ret,
                   moves_available>>

\* ai.mark_mine(cell)
MarkMine == \E cell \in ArgCells : MarkMineWithin(MaxCalls, cell)

\* One call ai.mark_safe(cell) while fewer than limit calls have been made.
MarkSafeWithin(limit, cell) ==
    /\ pc = "idle"
    /\ calls < limit
    /\ LET r == mark_safe(AI, cell)
       IN /\ safes' = r.safes
          /\ knowledge' = r.knowledge
          /\ arg_cell' = cell
    /\ last' = "mark_safe"
    /\ calls' = calls + 1
    /\ UNCHANGED <<board, moves_made, mines, raised, arg_count, pc, op, ret,
                   moves_available>>

\* ai.mark_safe(cell)
MarkSafe == \E cell \in ArgCells : MarkSafeWithin(MaxCalls, cell)

NextAny ==
    \/ AddKnowledgeAny
    \/ MarkMine
    \/ MarkSafe
    \/ SafeMove
    \/ RandomMoveEnter
    \/ RandomMoveDraw
    \/ Resume

SpecAny == InitAny /\ [][NextAny]_vars

\* The same caller making add_knowledge calls only.
NextCalls == AddKnowledgeAny

SpecCalls == InitAny /\ [][NextCalls]_vars

----------------------------------------------------------------------------
\* Longer games on the board without mines: Minesweeper(height, width,
\* mines=0), the engine fed by the game for MaxClearCalls calls.

InitClear ==
    /\ board = {}
    /\ InitAI

ObserveClear ==
    \E cell \in Cells \ board :
        AddKnowledgeWithin(MaxClearCalls, cell, nearby_mines(cell))

NextClear == ObserveClear

SpecClear == InitClear /\ [][NextClear]_vars

----------------------------------------------------------------------------
\* Longer games on two sample boards, one mine in a corner and two adjacent
\* mines, the engine fed by the game for MaxDeepCalls calls.

DeepBoards == {{<<0, 0>>}, {<<1, 0>>, <<1, 1>>}}

InitDeep ==
    /\ board \in DeepBoards
    /\ InitAI

ObserveDeep ==
    \E cell \in Cells \ board :
        AddKnowledgeWithin(MaxDeepCalls, cell, nearby_mines(cell))

NextDeep == ObserveDeep

SpecDeep == InitDeep /\ [][NextDeep]_vars

----------------------------------------------------------------------------
\* Longer sessions of a caller that works in one corner of the grid: any
\* MaxDeepCalls calls of add_knowledge, mark_mine and mark_safe on the cells
\* NearCells, with the counts NearCounts.

\* Two further sample boards, one mine and three mines, for the games in
\* which a derived sentence waits one call for its resolution.
PendingBoards == {{<<0, 0>>}, {<<0, 2>>, <<1, 0>>, <<1, 2>>}}

InitPending ==
    /\ board \in PendingBoards
    /\ InitAI

\* The cells the game reveals in those games.
PendingCells == {<<0, 0>>, <<0, 1>>, <<1, 1>>}

ObservePending ==
    \E cell \in PendingCells \ board :
        AddKnowledgeWithin(MaxDeepCalls, cell, nearby_mines(cell))

NextPending == ObservePending

SpecPending == InitPending /\ [][NextPending]_vars

NearCells == {<<0, 0>>, <<0, 1>>, <<0, 2>>, <<1, 0>>}
NearCounts == {0, 1}

AddKnowledgeNear ==
    \E cell \in NearCells, count \in NearCounts :
        AddKnowledgeWithin(MaxDeepCalls, cell, count)

MarkMineNear == \E cell \in NearCells : MarkMineWithin(MaxDeepCalls, cell)

MarkSafeNear == \E cell \in NearCells : MarkSafeWithin(MaxDeepCalls, cell)

NextNear ==
    \/ AddKnowledgeNear
    \/ MarkMineNear
    \/ MarkSafeNear

SpecNear == InitAny /\ [][NextNear]_vars

----------------------------------------------------------------------------
\* Properties of the engine fed by the game (Spec) and by any caller (SpecAny)

\* The step from the unprimed to the primed state is one add_knowledge call,
\* with the arguments arg_cell' and arg_count'.
AddKnowledgeStep == calls' = calls + 1 /\ last' = "add_knowledge"

\* The knowledge base of that call right after step 3.5 (the observation's
\* sentence appended, nothing resolved yet).
KnowledgeAfterAppend ==
    add_sentence(record_move(AI, arg_cell'), arg_cell', arg_count').knowledge

\* C1 - Soundness of deduced facts: under observations consistent with the
\* board's mine layout, every cell in ai.mines is a mine of the board and no
\* cell in ai.safes is one.
C1_Soundness == mines \subseteq board /\ safes \cap board = {}

C1_Witness ==
    /\ calls = 2
    /\ mines # {}
    /\ safes \ moves_made # {}

\* C2 - Disjointness: under observations consistent with the board, ai.safes
\* and ai.mines have no cell in common.
C2_Disjoint == safes \cap mines = {}

C2_Witness ==
    /\ last = "add_knowledge"
    /\ mines # {}
    /\ Cardinality(safes) > 1

\* C3 - Count range: under observations consistent with the board, every
\* sentence in ai.knowledge has 0 <= count <= len(cells).
C3_CountRange ==
    \A i \in 1 .. Len(knowledge) :
        0 <= knowledge[i].count /\ knowledge[i].count <= Cardinality(knowledge[i].cells)

C3_Witness ==
    /\ calls = 2
    /\ mines # {}
    /\ \E i \in 1 .. Len(knowledge) :
          /\ 0 < knowledge[i].count
          /\ knowledge[i].count < arg_count
          /\ knowledge[i].count < Cardinality(knowledge[i].cells)

\* C4 - Monotonicity: whatever the arguments, no operation of MinesweeperAI
\* removes a cell from ai.safes, ai.mines or ai.moves_made.
C4_Monotonic ==
    [][/\ moves_made \subseteq moves_made'
       /\ safes \subseteq safes'
       /\ mines \subseteq mines']_vars

C4_Witness ==
    /\ calls = 2
    /\ last = "add_knowledge"
    /\ mines \cap safes # {}

C7_SubsetResolved ==
    [][AddKnowledgeStep =>
         LET kb == KnowledgeAfterAppend
         IN \A i, j \in 1 .. Len(kb) :
               (/\ kb[i].cells \subseteq kb[j].cells
                /\ kb[i].cells # kb[j].cells
                /\ kb[i].count = kb[j].count)
               => (kb[j].cells \ kb[i].cells) \subseteq safes']_vars

\* The sentences of a list, as a set.
SeqToSet(seq) == {seq[i] : i \in 1 .. Len(seq)}

\* C8 - Fixpoint on return: whenever add_knowledge has returned, another
\* inference pass (resolve, then derive from every subset pair) would add no
\* cell to ai.safes or ai.mines and no new sentence to ai.knowledge.
C8_Fixpoint ==
    (last = "add_knowledge" /\ ~raised) =>
        /\ resolve(AI).safes = safes
        /\ resolve(AI).mines = mines
        /\ ~derivation_raises(resolve(AI).knowledge)
        /\ sentences_to_add(resolve(AI).knowledge) \subseteq SeqToSet(knowledge)

\* C9 - make_safe_move returns a cell of ai.safes not in ai.moves_made
\* whenever there is one, and None exactly when ai.safes is a subset of
\* ai.moves_made.
C9_SafeMove ==
    (pc = "returned" /\ op = "make_safe_move") =>
        IF safes \subseteq moves_made
        THEN ret = None
        ELSE ret \in safes \ moves_made

\* After the count-0 observation of the 3x3 centre the call returns one of
\* the eight neighbours.
C9_Witness ==
    /\ pc = "returned"
    /\ op = "make_safe_move"
    /\ calls = 1
    /\ arg_cell = <<1, 1>>
    /\ arg_count = 0
    /\ ret \in get_neighbors(<<1, 1>>)

\* C10 - make_random_move never returns an invalid cell: a returned cell is
\* inside the grid, not in ai.moves_made and not in ai.mines; and when every
\* cell of the grid is in ai.moves_made or ai.mines it returns None.
C10_RandomMoveValid ==
    (pc = "returned" /\ op = "make_random_move") =>
        /\ ret # None => (ret \in Cells /\ ret \notin moves_made /\ ret \notin mines)
        /\ Cells \subseteq (moves_made \cup mines) => ret = None

\* The exhausted grid: the centre probed, its eight neighbours known mines.
C10_Witness ==
    /\ pc = "returned"
    /\ op = "make_random_move"
    /\ ret = None
    /\ mines # {}
    /\ Cells \subseteq (moves_made \cup mines)

\* C11 - make_random_move returns None only on exhaustion: whenever some
\* cell of the grid is neither in ai.moves_made nor in ai.mines, the call
\* returns such a cell and never None, whatever the draws.
C11_NoneOnlyOnExhaustion ==
    (pc = "returned" /\ op = "make_random_move" /\ ret = None) =>
        Cells \subseteq (moves_made \cup mines)

\* An observation the interface excludes: a count outside [0, 8], a cell
\* outside the grid, or a cell already known to be a mine.
InvalidObservation(ai, cell, count) ==
    \/ count < 0
    \/ count > 8
    \/ cell \notin Cells
    \/ cell \in ai.mines

\* C12 - Validate-then-commit: add_knowledge called with an invalid
\* observation is rejected with an error and leaves ai.moves_made, ai.safes,
\* ai.mines and ai.knowledge as they were.
C12_ValidateThenCommit ==
    [][(AddKnowledgeStep /\ InvalidObservation(AI, arg_cell', arg_count'))
       => (raised' /\ UNCHANGED aivars)]_vars

\* The knowledge base of the call just made as it stood after step 4.
KnowledgeAfterResolve ==
    resolve(add_sentence(record_move(AI, arg_cell'), arg_cell', arg_count')).knowledge

\* Some pair A, B of the list that step 5 examines (A.cells a subset of
\* B.cells; of two sentences with the same cells the earlier one is A) has
\* B.count - A.count < 0.
NegativeDerivedCount(kb) ==
    \E a, b \in 1 .. Len(kb) :
        /\ a # b
        /\ kb[b].count - kb[a].count < 0
        /\ kb[a].cells \subseteq kb[b].cells
        /\ kb[a].cells = kb[b].cells => a < b

C14_NoDoubleMark ==
    [][(/\ calls' = calls + 1
        /\ \/ last' = "mark_mine" /\ arg_cell' \in safes
           \/ last' = "mark_safe" /\ arg_cell' \in mines
           \/ last' = "add_knowledge" /\ arg_cell' \in mines)
       => arg_cell' \notin (safes' \cap mines')]_vars

\* C15 - Move queries are pure reads: every step of make_safe_move and of
\* make_random_move, from the call to the caller's resumption, leaves
\* ai.moves_made, ai.safes, ai.mines and ai.knowledge unchanged.
C15_PureReads ==
    [][(pc # "idle" \/ pc' # "idle") => UNCHANGED aivars]_vars

\* make_safe_move has returned a cell from an engine that holds sentences.
C15_Witness ==
    /\ pc = "returned"
    /\ op = "make_safe_move"
    /\ ret # None
    /\ knowledge # <<>>

\* The number of samples make_random_move has drawn so far in its loop.
DrawsMade == Height * Width - moves_available

\* C16 - make_random_move terminates within height*width draws: it enters
\* the loop with no draw made, every draw either returns or counts one more
\* draw, and inside the loop fewer than height*width draws have been made.
C16_BoundedDraws ==
    [][/\ (pc = "idle" /\ pc' = "random") => DrawsMade' = 0
       /\ pc = "random" =>
             /\ DrawsMade \in 0 .. Height * Width - 1
             /\ pc' \in {"random", "returned"}
             /\ pc' = "random" => DrawsMade' = DrawsMade + 1]_vars

\* Every draw but the last allowed one has been rejected.
C16_Witness ==
    /\ pc = "random"
    /\ DrawsMade = Height * Width - 1
    /\ Cells \ (moves_made \cup mines) # {}

\* |a - b|
Distance(a, b) == IF a < b THEN b - a ELSE a - b

\* The cells of a height x width grid at distance at most one from cell in
\* both coordinates, the cell itself excluded.
Surrounding(height, width, cell) ==
    {c \in (0 .. height - 1) \X (0 .. width - 1) :
        /\ Distance(c[1], cell[1]) <= 1
        /\ Distance(c[2], cell[2]) <= 1
        /\ c # cell}

\* get_neighbors agrees with Surrounding on every cell of every grid of side
\* at most MaxSide.
NeighboursOnEveryGrid ==
    \A height, width \in 1 .. MaxSide :
        \A cell \in (0 .. height - 1) \X (0 .. width - 1) :
            get_neighbors_on(height, width, cell) = Surrounding(height, width, cell)

\* C17 - Neighbour set: for every cell of a height x width grid,
\* get_neighbors(cell) is exactly the set of in-bounds coordinates within
\* one row and one column of the cell, the cell itself excluded; so is the
\* set the engine computed for the cell it was last given.
C17_NeighbourSet ==
    /\ NeighboursOnEveryGrid
    /\ (last = "add_knowledge" /\ calls = 1) =>
          /\ get_neighbors(arg_cell) = Surrounding(Height, Width, arg_cell)
          /\ \A i \in 1 .. Len(knowledge) :
                knowledge[i].cells \subseteq Surrounding(Height, Width, arg_cell)

\* The engine's first sentence is over the three neighbours of a corner.
C17_Witness ==
    /\ last = "add_knowledge"
    /\ calls = 1
    /\ arg_cell = <<0, 0>>
    /\ knowledge = <<Sentence({<<0, 1>>, <<1, 0>>, <<1, 1>>}, 1)>>

\* C18 - Global update: whenever add_knowledge has returned, no sentence of
\* ai.knowledge contains a cell of ai.safes or of ai.mines.
C18_GlobalUpdate ==
    last = "add_knowledge" =>
        \A i \in 1 .. Len(knowledge) :
            knowledge[i].cells \cap (safes \cup mines) = {}

\* C19 - No informationless sentences: whenever add_knowledge has returned,
\* no sentence of ai.knowledge has an empty cell set.
C19_NoEmptySentence ==
    last = "add_knowledge" =>
        \A i \in 1 .. Len(knowledge) : knowledge[i].cells # {}

\* C20 - Derived sentences are deduplicated against existing ones: a
\* sentence that step 5 of add_knowledge appends is equal to no sentence the
\* knowledge base held when step 5 began.
C20_DerivedDeduplicated ==
    [][(AddKnowledgeStep /\ ~raised') =>
          \A k \in Len(KnowledgeAfterResolve) + 1 .. Len(knowledge') :
              knowledge'[k] \notin SeqToSet(KnowledgeAfterResolve)]_vars

\* The sentences the resolution scan of the call just made found resolved.
ResolvedInScan ==
    {s \in SeqToSet(KnowledgeAfterAppend) :
        s.cells # {} /\ (s.count = 0 \/ s.count = Cardinality(s.cells))}

\* C21 - Resolved sentences are discarded: every sentence with cells that
\* the resolution scan of add_knowledge finds with count 0 or count = |cells|
\* is absent from ai.knowledge when the call returns, however many equal
\* copies of it the knowledge base held.
C21_ResolvedDiscarded ==
    [][AddKnowledgeStep =>
          \A s \in ResolvedInScan : s \notin SeqToSet(knowledge')]_vars

\* The sentence the call just made appended for its observation (step 3.5).
ObservationSentence == KnowledgeAfterAppend[Len(KnowledgeAfterAppend)]

\* C22 - Observation sentence is pruned against known facts: the sentence
\* add_knowledge(cell, count) appends has cells = get_neighbors(cell) minus
\* (ai.safes union ai.mines), cell itself counted as safe, and count = count
\* minus the number of neighbours of cell in ai.mines; it never holds cell.
C22_ObservationPruned ==
    [][AddKnowledgeStep =>
          /\ ObservationSentence.cells =
                get_neighbors(arg_cell') \ (safes \cup {arg_cell'} \cup mines)
          /\ ObservationSentence.count =
                arg_count' - Cardinality(get_neighbors(arg_cell') \cap mines)
          /\ arg_cell' \notin ObservationSentence.cells]_vars

\* The sentence the subset rule derives from A and B.
Difference(A, B) == Sentence(B.cells \ A.cells, B.count - A.count)

StrictSubset(S, T) == S \subseteq T /\ S # T

\* C23 - Subset derivation is complete over pairs: for every two distinct
\* sentences A, B left after the resolution step of an add_knowledge call
\* with A.cells strictly inside B.cells, the sentence (B.cells minus A.cells,
\* B.count - A.count) is in ai.knowledge when the call returns, wherever A
\* and B stand in the list.
C23_DerivationComplete ==
    [][(AddKnowledgeStep /\ ~raised') =>
          \A kb \in {KnowledgeAfterResolve} :
              \A a, b \in 1 .. Len(kb) :
                  StrictSubset(kb[a].cells, kb[b].cells) =>
                      Difference(kb[a], kb[b]) \in SeqToSet(knowledge')]_vars

\* A call has returned with a sentence, the later strict subset of it, and
\* their difference in the knowledge base.
C23_Witness ==
    /\ last = "add_knowledge"
    /\ ~raised
    /\ \E a, b \in 1 .. Len(knowledge) :
          /\ b < a
          /\ StrictSubset(knowledge[a].cells, knowledge[b].cells)
          /\ knowledge[a].cells # {}
          /\ Difference(knowledge[a], knowledge[b]) \in SeqToSet(knowledge)

\* The permutations of 1 .. n.
IndexPermutations(n) ==
    {p \in [1 .. n -> 1 .. n] : \A i, j \in 1 .. n : p[i] = p[j] => i = j}

\* The engine with its list of sentences reordered by p.
Reordered(ai, p) ==
    [ai EXCEPT !.knowledge = [i \in 1 .. Len(@) |-> @[p[i]]]]

\* A list of sentences as a multiset: how often each sentence occurs.
Multiset(seq) ==
    [s \in SeqToSet(seq) |-> Cardinality({i \in 1 .. Len(seq) : seq[i] = s})]

\* What add_knowledge(cell, count) can leave behind, the order of the
\* sentences disregarded.
Outcomes(ai, cell, count) ==
    {<<r.ai.safes, r.ai.mines, Multiset(r.ai.knowledge), r.raised>> :
        r \in add_knowledge(ai, cell, count)}

\* C24 - Scan-order independence: in a state reached through observations
\* consistent with the board, the next observation leaves the same ai.safes,
\* ai.mines and multiset of sentences for every order of ai.knowledge.
C24_ScanOrderIndependent ==
    (calls < MaxDeepCalls /\ Len(knowledge) <= MaxPermLen) =>
        \A cell \in Cells \ board :
            \A base \in {Outcomes(AI, cell, nearby_mines(cell))} :
                \A p \in IndexPermutations(Len(knowledge)) :
                    Outcomes(Reordered(AI, p), cell, nearby_mines(cell)) = base

\* Two observations have left at least two different sentences to reorder,
\* one of them resolved.
C24_Witness ==
    /\ calls < MaxDeepCalls
    /\ Len(knowledge) \in 2 .. MaxPermLen
    /\ \E i, j \in 1 .. Len(knowledge) :
          /\ knowledge[i] # knowledge[j]
          /\ knowledge[i].cells # {}
          /\ knowledge[i].count = 0

\* C25 - Explicit marking propagates to all sentences: after mark_mine(c),
\* c is in ai.mines, every sentence that held c has lost c and one from its
\* count, and the other sentences are unchanged; after mark_safe(c), c is in
\* ai.safes, every sentence has lost c and kept its count.
C25_MarkingPropagates ==
    [][/\ (calls' = calls + 1 /\ last' = "mark_mine") =>
             /\ arg_cell' \in mines'
             /\ Len(knowledge') = Len(knowledge)
             /\ \A i \in 1 .. Len(knowledge) :
                   knowledge'[i] =
                      IF arg_cell' \in knowledge[i].cells
                      THEN Sentence(knowledge[i].cells \ {arg_cell'},
                                    knowledge[i].count - 1)
                      ELSE knowledge[i]
       /\ (calls' = calls + 1 /\ last' = "mark_safe") =>
             /\ arg_cell' \in safes'
             /\ Len(knowledge') = Len(knowledge)
             /\ \A i \in 1 .. Len(knowledge) :
                   knowledge'[i] =
                      Sentence(knowledge[i].cells \ {arg_cell'}, knowledge[i].count)
      ]_vars

\* mark_mine((0,2)) after add_knowledge((0,0),1) and add_knowledge((0,1),1):
\* the first sentence did not hold the cell, the other two did.
C25_Witness ==
    /\ last = "mark_mine"
    /\ arg_cell = <<0, 2>>
    /\ knowledge = << Sentence({<<1, 0>>, <<1, 1>>}, 1),
                      Sentence({<<1, 0>>, <<1, 1>>, <<1, 2>>}, 0),
                      Sentence({<<1, 2>>}, 0 - 1) >>

\* C26 - Sentence.mark_mine(cell) on a sentence that holds cell and has
\* count 0 is an error: no such sentence is left with count -1.
C26_MarkMineAtZero ==
    [][(calls' = calls + 1 /\ last' = "mark_mine") =>
          \A i \in 1 .. Len(knowledge) :
              (arg_cell' \in knowledge[i].cells /\ knowledge[i].count = 0) =>
                  knowledge'[i].count # 0 - 1]_vars

\* C27 - The internal-consistency error is unreachable for consistent
\* input: fed by the board, no add_knowledge call raises and no pair that
\* step 5 examines has B.count - A.count < 0.
C27_NoRaiseWhenConsistent ==
    [][AddKnowledgeStep =>
          /\ ~raised'
          /\ \A kb \in {KnowledgeAfterResolve} : ~NegativeDerivedCount(kb)]_vars

\* A call fed by the board has returned after deriving a sentence of count 0
\* from two sentences of equal count, one strictly inside the other.
C27_Witness ==
    /\ last = "add_knowledge"
    /\ ~raised
    /\ \E a, b \in 1 .. Len(knowledge) :
          /\ StrictSubset(knowledge[a].cells, knowledge[b].cells)
          /\ knowledge[a].cells # {}
          /\ knowledge[a].count = knowledge[b].count
          /\ Difference(knowledge[a], knowledge[b]) \in SeqToSet(knowledge)

\* C28 - Every probed cell is known safe: after any sequence of
\* add_knowledge calls, with any arguments, ai.moves_made is a subset of
\* ai.safes.
C28_MovesAreSafe == moves_made \subseteq safes

\* Two different cells have been probed and the second call raised after
\* recording its cell.
C28_Witness ==
    /\ raised
    /\ Cardinality(moves_made) = 2
    /\ arg_cell \in moves_made \cap safes

\* C29 - No sentence ever references a probed cell: after every
\* add_knowledge call no sentence of ai.knowledge, original, pruned or
\* derived, holds a cell of ai.moves_made.
C29_NoProbedCellInSentence ==
    last = "add_knowledge" =>
        \A i \in 1 .. Len(knowledge) : knowledge[i].cells \cap moves_made = {}

\* The second probe hit a cell of the first observation's sentence, and a
\* sentence derived from the pruned one is in the knowledge base.
C29_Witness ==
    /\ last = "add_knowledge"
    /\ calls = 2
    /\ Len(knowledge) >= 3
    /\ \E n \in get_neighbors(arg_cell) : n \in moves_made
    /\ \A i \in 1 .. Len(knowledge) : knowledge[i].cells # {}

\* C30 - Deferred resolution within one further observation: under
\* observations consistent with the mine layout, every cell of a sentence
\* with count 0 that is in ai.knowledge when an add_knowledge call returns
\* is in ai.safes when the next add_knowledge call returns, and every cell
\* of a stored sentence with count = |cells| is then in ai.mines.
C30_DeferredResolution ==
    [][(AddKnowledgeStep /\ calls >= 1) =>
          \A i \in 1 .. Len(knowledge) :
              /\ knowledge[i].count = 0 => knowledge[i].cells \subseteq safes'
              /\ knowledge[i].count = Cardinality(knowledge[i].cells)
                    => knowledge[i].cells \subseteq mines']_vars

\* Three calls have probed cells with mines nearby, no mine is known, and a
\* cell that was never probed is known safe: no observed sentence can have
\* reached count 0, so the cell comes from a derived count-0 sentence that
\* the call after its derivation resolved.
C30_Witness ==
    /\ last = "add_knowledge" /\ ~raised
    /\ calls = 3
    /\ mines = {}
    /\ \A m \in moves_made : nearby_mines(m) > 0
    /\ safes \ moves_made # {}

\* Three calls have been made, every probed cell still has a neighbour
\* without a mine that is not known safe, so no observed sentence can have
\* shrunk to its mines, and yet mines are known: they come from a derived
\* count = |cells| sentence that the call after its derivation resolved.
C30_WitnessMines ==
    /\ last = "add_knowledge" /\ ~raised
    /\ calls = 3
    /\ mines # {}
    /\ \A m \in moves_made : (get_neighbors(m) \ board) \ safes # {}

=============================================================================
